---------------------------- MODULE Spec2Model ----------------------------
(***************************************************************************)
(* Model of app.py, a Streamlit page: the script runs top to bottom once   *)
(* per user interaction (a widget edit or a button click).  One script run *)
(* is one action.  st.session_state survives between runs; everything the  *)
(* run displays is rebuilt by the run.                                     *)
(***************************************************************************)
EXTENDS Integers, Sequences, FiniteSets, TLC

VARIABLES
    submitted,          \* st.session_state.submitted
    weather_data,       \* st.session_state.weather_data
    lat, lon,           \* st.session_state.lat / .lon (attributes may not exist)
    trial_name, trial_start_date, trial_end_date, postcode, add_weather,  \* widget values
    clicked,            \* the button whose click triggered the last run
    errors,             \* st.error messages of the last run, in order
    calls,              \* external calls of the last run, in order
    raised,             \* exception that ended the last run, if any
    shown,              \* elements the last run displayed below the inputs
    shown_lat, shown_lon,   \* the coordinates written by line 114
    response,           \* what the weather provider answered to the last request
    hourly_dataframe,   \* what fetch_weather_data returned for it
    last_accepted       \* history: the most recent accepted submission

session == <<submitted, weather_data, lat, lon>>
widgets == <<trial_name, trial_start_date, trial_end_date, postcode, add_weather>>
page    == <<clicked, errors, calls, raised, shown, shown_lat, shown_lon>>
vars    == <<session, widgets, page, response, hourly_dataframe, last_accepted>>

----------------------------------------------------------------------------
(* Bounds of the model. *)
MaxDate     == 2    \* dates are days 1..MaxDate
MaxStart    == 1    \* forecast window starts 0..MaxStart
MaxInterval == 2    \* step intervals 1..MaxInterval
MaxLen      == 3    \* hourly values per variable 0..MaxLen

----------------------------------------------------------------------------
(* Python values. *)
None      == [tag |-> "None"]
Unset     == "<no attribute>"      \* st.session_state has no such attribute
PyNone    == "None"                \* None in a position that otherwise holds a string
NoException == "none"
NotShown  == "<not shown>"
NotCalled == [tag |-> "NotCalled"]

Date(d)   == [tag |-> "date", day |-> d]
Dates     == {Date(d) : d \in 1..MaxDate}

Names     == {"", "Greenhouse Test A"}
Postcodes == {"", "BS1 1AA", "ZZZZZZ"}
Choices   == {"No", "Yes"}
Locations == {<<"51.45", "-2.59">>, <<"0.0", "0.0">>}

(* What the Nominatim geocoder can do with a query. *)
GeocodeOutcomes ==
    {[tag |-> "Location", latitude |-> c[1], longitude |-> c[2]] : c \in Locations}
        \cup {None, [tag |-> "GeocoderTimedOut"]}

(* The widget values a run can see: text inputs may be empty, a date input *)
(* may be empty, and the end date input has min_value = the start date.    *)
WidgetValues ==
    {w \in [trial_name : Names, trial_start_date : Dates \cup {None},
            trial_end_date : Dates \cup {None}, postcode : Postcodes,
            add_weather : Choices] :
        (w.trial_start_date # None /\ w.trial_end_date # None)
            => w.trial_end_date.day >= w.trial_start_date.day}

----------------------------------------------------------------------------
(* The Geocoding Client. *)

(* get_coordinates: the first match's pair, or (None, None) when there is  *)
(* no match or the geocoder timed out.                                     *)
get_coordinates(query, outcome) ==
    IF outcome.tag = "Location"
        THEN <<outcome.latitude, outcome.longitude>>
        ELSE <<PyNone, PyNone>>

----------------------------------------------------------------------------
(* The Weather Client. *)

Values    == 0..1
Arrays(n) == [1..n -> Values]

(* An hourly block as the provider builds it: n values per variable on one *)
(* time axis that starts at Time and ends at TimeEnd = Time + n * Interval.*)
HourlyBlock(s, n, i, t, c, p) ==
    [tag |-> "Response", Time |-> s, TimeEnd |-> s + n * i, Interval |-> i,
     Variables |-> <<t, c, p>>]

Responses ==
    UNION {{HourlyBlock(s, n, i, t, c, p) :
               s \in 0..MaxStart, i \in 1..MaxInterval,
               t \in Arrays(n), c \in Arrays(n), p \in Arrays(n)} :
           n \in 0..MaxLen}

RequestException == [tag |-> "RequestException"]   \* the retries are used up

(* pd.date_range(start, end, freq, inclusive="left"): the points start,    *)
(* start + freq, ... up to end, then the point equal to end dropped.       *)
RECURSIVE GenerateRange(_, _, _)
GenerateRange(cur, end, freq) ==
    IF cur > end THEN <<>> ELSE <<cur>> \o GenerateRange(cur + freq, end, freq)

(* The same range with inclusive="both": the end point kept. *)
date_range_both(start, end, freq) == GenerateRange(start, end, freq)

date_range(start, end, freq) ==
    SelectSeq(GenerateRange(start, end, freq), LAMBDA t : t # end)

(* pd.DataFrame(data=dict of columns): columns of one length, row by row;  *)
(* columns of different lengths raise ValueError.                          *)
DataFrame(date, temperature, cloud, precipitation) ==
    IF Len(temperature) = Len(date) /\ Len(cloud) = Len(date)
            /\ Len(precipitation) = Len(date)
        THEN [tag |-> "DataFrame",
              rows |-> [k \in 1..Len(date) |->
                          [date |-> date[k], temperature_2m |-> temperature[k],
                           cloud_cover |-> cloud[k],
                           precipitation |-> precipitation[k]]]]
        ELSE [tag |-> "ValueError"]

(* fetch_weather_data, given what openmeteo.weather_api answered. *)
fetch_weather_data(latitude, longitude, resp) ==
    IF resp.tag # "Response" THEN resp
    ELSE DataFrame(date_range(resp.Time, resp.TimeEnd, resp.Interval),
                   resp.Variables[1], resp.Variables[2], resp.Variables[3])

IsException(v) == v.tag \in {"RequestException", "ValueError"}

----------------------------------------------------------------------------
(* The Form Controller: the submit handler. *)

ErrTrialName == "Please enter a **Trial Name**."
ErrStartDate == "Please select a **Trial Start Date**."
ErrEndDate   == "Please select a **Trial End Date**."
ErrPostcode  == "Please enter a **Location (Postcode)**."

(* Every missing field reported, not the first only. *)
ValidateAll(w) ==
    (IF w.trial_name = "" THEN <<ErrTrialName>> ELSE <<>>)
        \o (IF w.trial_start_date = None THEN <<ErrStartDate>> ELSE <<>>)
        \o (IF w.trial_end_date = None THEN <<ErrEndDate>> ELSE <<>>)
        \o (IF w.postcode = "" THEN <<ErrPostcode>> ELSE <<>>)

(* The if/elif chain of the required fields: the st.error messages it      *)
(* writes, empty when every field is filled.                               *)
Validate(w) ==
    IF w.trial_name = "" THEN <<ErrTrialName>>
    ELSE IF w.trial_start_date = None THEN <<ErrStartDate>>
    ELSE IF w.trial_end_date = None THEN <<ErrEndDate>>
    ELSE IF w.postcode = "" THEN <<ErrPostcode>>
    ELSE <<>>

(* lat is not None and lon is not None *)
Resolved(la, lo) == la # PyNone /\ lo # PyNone

(* The weather fetched whatever the radio says. *)
WantsWeatherAlways(choice) == TRUE

(* add_weather == "Yes", asked once the coordinates are resolved *)
WantsWeather(choice) == choice = "Yes"

GeocodeCall(query, ret) == [fn |-> "get_coordinates", args |-> <<query>>, ret |-> ret]
WeatherCall(args, ret)  == [fn |-> "fetch_weather_data", args |-> args, ret |-> ret]

(* The else branch: the submission is accepted.  s is the session state,   *)
(* w the widget values, g and r what the two providers answer if asked.    *)
AcceptSubmission(s, w, g, r) ==
    LET s1   == [s EXCEPT !.submitted = TRUE]
        c    == get_coordinates(w.postcode, g)
        geo  == GeocodeCall(w.postcode, c)
        base == [session |-> s1, errors |-> <<>>, calls |-> <<geo>>,
                 raised |-> NoException, response |-> NotCalled,
                 hourly_dataframe |-> NotCalled]
    IN  IF ~Resolved(c[1], c[2]) THEN base
        ELSE
          LET s2 == [s1 EXCEPT !.lat = c[1], !.lon = c[2]] IN
          IF ~WantsWeather(w.add_weather) THEN [base EXCEPT !.session = s2]
          ELSE
            LET a  == <<c[1], c[2]>>
                df == fetch_weather_data(a[1], a[2], r)
                wx == WeatherCall(a, df)
            IN  [base EXCEPT
                   !.session = IF IsException(df) THEN s2
                               ELSE [s2 EXCEPT !.weather_data = df],
                   !.calls = <<geo, wx>>,
                   !.raised = IF IsException(df) THEN df.tag ELSE NoException,
                   !.response = r,
                   !.hourly_dataframe = df]

(* if st.button("Submit Trial Info"): ... *)
SubmitHandler(s, w, g, r) ==
    LET e == Validate(w) IN
    IF e # <<>>
        THEN [session |-> s, errors |-> e, calls |-> <<>>, raised |-> NoException,
              response |-> NotCalled, hourly_dataframe |-> NotCalled]
        ELSE AcceptSubmission(s, w, g, r)

(* A run in which the submit button was not clicked. *)
NoSubmit(s) ==
    [session |-> s, errors |-> <<>>, calls |-> <<>>, raised |-> NoException,
     response |-> NotCalled, hourly_dataframe |-> NotCalled]

----------------------------------------------------------------------------
(* The Presentation Layer below the inputs, and the reset handler. *)

(* A reset handler that leaves the flag as it is. *)
ResetHandlerNoop(s) == s

(* st.session_state.submitted = False *)
ResetHandler(s) == [s EXCEPT !.submitted = FALSE]

(* if st.session_state.submitted: the summary, the weather sample and the  *)
(* reset button.  Reading st.session_state.lat raises AttributeError when   *)
(* no run has stored it; what was written before stays on the page.        *)
Summary(s, w, button) ==
    IF ~s.submitted
        THEN [session |-> s, shown |-> {}, shown_lat |-> NotShown,
              shown_lon |-> NotShown, raised |-> NoException]
    ELSE IF s.lat = Unset \/ s.lon = Unset
        THEN [session |-> s, shown |-> {"success", "start_date", "end_date"},
              shown_lat |-> NotShown, shown_lon |-> NotShown,
              raised |-> "AttributeError"]
    ELSE
        [session |-> IF button = "reset" THEN ResetHandler(s) ELSE s,
         shown |-> {"success", "start_date", "end_date", "coordinates", "map", "reset"}
                    \cup (IF w.add_weather = "Yes" /\ s.weather_data # None
                              THEN {"weather_sample", "download"} ELSE {}),
         shown_lat |-> s.lat, shown_lon |-> s.lon, raised |-> NoException]

----------------------------------------------------------------------------
(* One run of the script. *)

Session == [submitted |-> submitted, weather_data |-> weather_data,
            lat |-> lat, lon |-> lon]
Widgets == [trial_name |-> trial_name, trial_start_date |-> trial_start_date,
            trial_end_date |-> trial_end_date, postcode |-> postcode,
            add_weather |-> add_weather]

(* What the weather provider can answer in a session: a forecast, or       *)
(* failures until the retries are used up.                                 *)
Forecast(n) == HourlyBlock(0, n, 1, [k \in 1..n |-> 0], [k \in 1..n |-> 1],
                           [k \in 1..n |-> 0])
ForecastOutcomes == {Forecast(0), Forecast(MaxLen), RequestException}

(* History: the accepted submission the handler has just processed. *)
Accepted(h, w) ==
    [tag |-> "submission", add_weather |-> w.add_weather,
     resolved |-> Resolved(h.calls[1].ret[1], h.calls[1].ret[2])]

(* The script from top to bottom: button is the button whose click         *)
(* triggered the run ("none" for a widget edit), w the widget values.  An  *)
(* exception in the submit handler ends the run before the summary.        *)
Run(button, w, g, r) ==
    LET h == IF button = "submit" THEN SubmitHandler(Session, w, g, r)
                                  ELSE NoSubmit(Session)
        v == IF h.raised # NoException
                THEN [session |-> h.session, shown |-> {}, shown_lat |-> NotShown,
                      shown_lon |-> NotShown, raised |-> h.raised]
                ELSE Summary(h.session, w, button)
    IN  /\ submitted' = v.session.submitted
        /\ weather_data' = v.session.weather_data
        /\ lat' = v.session.lat
        /\ lon' = v.session.lon
        /\ trial_name' = w.trial_name
        /\ trial_start_date' = w.trial_start_date
        /\ trial_end_date' = w.trial_end_date
        /\ postcode' = w.postcode
        /\ add_weather' = w.add_weather
        /\ clicked' = button
        /\ errors' = h.errors
        /\ calls' = h.calls
        /\ raised' = v.raised
        /\ shown' = v.shown
        /\ shown_lat' = v.shown_lat
        /\ shown_lon' = v.shown_lon
        /\ response' = h.response
        /\ hourly_dataframe' = h.hourly_dataframe
        /\ last_accepted' = IF h.calls # <<>> THEN Accepted(h, w) ELSE last_accepted

(* The first run of a new session: the session state is initialised, the   *)
(* widgets hold their defaults (both dates today) and nothing is clicked.  *)
Init ==
    /\ submitted = FALSE
    /\ weather_data = None
    /\ lat = Unset
    /\ lon = Unset
    /\ trial_name = ""
    /\ \E today \in Dates : trial_start_date = today /\ trial_end_date = today
    /\ postcode = ""
    /\ add_weather = "No"
    /\ clicked = "none"
    /\ errors = <<>>
    /\ calls = <<>>
    /\ raised = NoException
    /\ shown = {}
    /\ shown_lat = NotShown
    /\ shown_lon = NotShown
    /\ response = NotCalled
    /\ hourly_dataframe = NotCalled
    /\ last_accepted = None

(* The user changes the value of one widget; the script reruns with no     *)
(* button clicked.                                                         *)
Edit ==
    \E w \in WidgetValues :
        /\ Cardinality({f \in DOMAIN w : w[f] # Widgets[f]}) = 1
        /\ Run("none", w, None, RequestException)

(* The user clicks "Submit Trial Info". *)
Submit ==
    \E g \in GeocodeOutcomes, r \in ForecastOutcomes :
        /\ Run("submit", Widgets, g, r)

(* The user clicks "Reset form", which is on the page only if the last run *)
(* displayed it.                                                           *)
Reset ==
    /\ "reset" \in shown
    /\ Run("reset", Widgets, None, RequestException)

Next == Edit \/ Submit \/ Reset

Spec == Init /\ [][Next]_vars

----------------------------------------------------------------------------
(* fetch_weather_data on its own: every hourly block the provider can      *)
(* build within the bounds, and the frame made of it.                      *)

InitWeather ==
    /\ submitted = FALSE
    /\ weather_data = None
    /\ lat = Unset
    /\ lon = Unset
    /\ trial_name = ""
    /\ trial_start_date = Date(1)
    /\ trial_end_date = Date(1)
    /\ postcode = ""
    /\ add_weather = "No"
    /\ clicked = "none"
    /\ errors = <<>>
    /\ calls = <<>>
    /\ raised = NoException
    /\ shown = {}
    /\ shown_lat = NotShown
    /\ shown_lon = NotShown
    /\ response \in Responses
    /\ hourly_dataframe = NotCalled
    /\ last_accepted = None

FetchWeather ==
    /\ hourly_dataframe = NotCalled
    /\ \E c \in Locations :
          hourly_dataframe' = fetch_weather_data(c[1], c[2], response)
    /\ UNCHANGED <<session, widgets, page, response, last_accepted>>

NextWeather == FetchWeather

SpecWeather == InitWeather /\ [][NextWeather]_vars

----------------------------------------------------------------------------
(* Vocabulary of the properties. *)

RequiredPresent ==
    /\ trial_name # ""
    /\ trial_start_date # None
    /\ trial_end_date # None
    /\ postcode # ""

SubmitProcessed   == clicked = "submit"
AcceptedSubmit    == SubmitProcessed /\ RequiredPresent
RejectedSubmit    == SubmitProcessed /\ ~RequiredPresent
GeocodeCalls      == {k \in 1..Len(calls) : calls[k].fn = "get_coordinates"}
WeatherCalls      == {k \in 1..Len(calls) : calls[k].fn = "fetch_weather_data"}
GeocodingFailed   ==
    \E k \in GeocodeCalls : calls[k].ret[1] = PyNone \/ calls[k].ret[2] = PyNone
CoordinatesAbsent == lat = Unset /\ lon = Unset

(* C1: a submit with a required field missing leaves submitted false, in   *)
(* every session state, also after an earlier accepted submission that was *)
(* not reset.                                                              *)
C1_RejectedSubmitLeavesUnsubmitted ==
    RejectedSubmit => (errors # <<>> /\ ~submitted)

(* C2: weather_data is populated only if the most recent accepted          *)
(* submission opted into weather and its postcode geocoded.                *)
C2_WeatherOnlyFromLastAccepted ==
    weather_data # None =>
        /\ last_accepted # None
        /\ last_accepted.add_weather = "Yes"
        /\ last_accepted.resolved

(* C3: an accepted submission whose postcode does not geocode, in a session *)
(* that never stored coordinates, ends its run without an exception, with  *)
(* submitted true and coordinates and weather absent.                      *)
C3_UnresolvedSubmissionRenders ==
    (AcceptedSubmit /\ GeocodingFailed /\ CoordinatesAbsent) =>
        /\ raised = NoException
        /\ submitted
        /\ weather_data = None

(* C4: after an accepted submission whose geocoding fails the record is    *)
(* submitted and the session holds, and the summary shows, no coordinates, *)
(* also when an earlier submission resolved to coordinates.                *)
C4_FailedGeocodingShowsNoCoordinates ==
    (AcceptedSubmit /\ GeocodingFailed) =>
        /\ submitted
        /\ CoordinatesAbsent
        /\ shown_lat = NotShown
        /\ shown_lon = NotShown

(* C5: a reset returns the session to its empty state: submitted false,    *)
(* coordinates absent, weather absent.                                     *)
C5_ResetEmptiesSession ==
    clicked = "reset" =>
        /\ ~submitted
        /\ CoordinatesAbsent
        /\ weather_data = None

(* C6: every reset ends with submitted false, and a submit with all        *)
(* required fields present is accepted from there (submitted becomes true  *)
(* and geocoding is invoked), also right after a reset and whatever        *)
(* weather data is stored; so the cycle can be repeated.                   *)
C6_ResetThenSubmitAccepted ==
    [][ /\ clicked' = "reset" => ~submitted'
        /\ (~submitted /\ AcceptedSubmit') =>
              (submitted' /\ Cardinality(GeocodeCalls') = 1) ]_vars

C6_Witness ==
    /\ clicked = "reset"
    /\ ~submitted
    /\ weather_data # None
    /\ RequiredPresent

(* C7: the frame fetch_weather_data builds from a provider response with   *)
(* window start s, end e and positive interval i has (e - s) / i rows with *)
(* timestamps s, s+i, ... below e, each one interval after the previous,   *)
(* and row k carries the provider's k-th value of each variable.           *)
C7_HourlySeries ==
    (hourly_dataframe # NotCalled /\ response.Interval > 0) =>
        LET s    == response.Time
            e    == response.TimeEnd
            i    == response.Interval
            rows == hourly_dataframe.rows
        IN  /\ hourly_dataframe.tag = "DataFrame"
            /\ Len(rows) * i = e - s
            /\ \A k \in 1..Len(rows) :
                  /\ rows[k].date = s + (k - 1) * i
                  /\ rows[k].date < e
                  /\ k > 1 => rows[k].date = rows[k - 1].date + i
                  /\ rows[k].temperature_2m = response.Variables[1][k]
                  /\ rows[k].cloud_cover = response.Variables[2][k]
                  /\ rows[k].precipitation = response.Variables[3][k]

C7_Witness ==
    /\ hourly_dataframe # NotCalled
    /\ hourly_dataframe.tag = "DataFrame"
    /\ Len(hourly_dataframe.rows) = MaxLen
    /\ response.Interval = MaxInterval
    /\ response.Time = MaxStart

(* C8: a rejected submit calls neither client; an accepted submit calls    *)
(* the geocoder exactly once, first; the weather client is called at most  *)
(* once, after the geocoder returned coordinates, only with opt-in Yes,    *)
(* and with the coordinates the geocoder returned.                         *)
C8_CallsOrderedAndGuarded ==
    /\ ~AcceptedSubmit => calls = <<>>
    /\ AcceptedSubmit =>
          /\ Len(calls) \in {1, 2}
          /\ GeocodeCalls = {1}
          /\ calls[1].args = <<postcode>>
          /\ WeatherCalls = 2..Len(calls)
          /\ \A k \in WeatherCalls :
                /\ calls[1].ret[1] # PyNone
                /\ calls[1].ret[2] # PyNone
                /\ add_weather = "Yes"
                /\ calls[k].args = calls[1].ret

C8_Witness ==
    /\ AcceptedSubmit
    /\ Len(calls) = 2
    /\ weather_data # None

(* C9: at the end of every run the reset control and the success summary   *)
(* are on the page only if submitted is true.                              *)
C9_SummaryOnlyWhileSubmitted ==
    ("reset" \in shown \/ "success" \in shown) => submitted

(* C10: a rejected submit reports exactly one error, the one of the first  *)
(* missing field in the order trial name, start date, end date, postcode;  *)
(* an accepted submit reports none.                                        *)
FieldOrder == <<"trial_name", "trial_start_date", "trial_end_date", "postcode">>
FieldError == [trial_name |-> ErrTrialName, trial_start_date |-> ErrStartDate,
               trial_end_date |-> ErrEndDate, postcode |-> ErrPostcode]
Missing(f) ==
    CASE f = "trial_name"       -> trial_name = ""
      [] f = "trial_start_date" -> trial_start_date = None
      [] f = "trial_end_date"   -> trial_end_date = None
      [] f = "postcode"         -> postcode = ""
MissingAt == {k \in 1..Len(FieldOrder) : Missing(FieldOrder[k])}

C10_FirstMissingFieldReported ==
    SubmitProcessed =>
        IF MissingAt = {}
            THEN errors = <<>>
            ELSE \E k \in MissingAt :
                    /\ \A j \in MissingAt : k <= j
                    /\ errors = <<FieldError[FieldOrder[k]]>>

C10_Witness ==
    /\ SubmitProcessed
    /\ Cardinality(MissingAt) >= 2
    /\ 1 \notin MissingAt
    /\ Len(errors) = 1

=============================================================================
